---- MODULE Spec2Model ----
(***************************************************************************)
(* Batch translation pipeline of esp2dsd_LangChain:                        *)
(*   src/src/utility.py            chunk_by_token_limit, count_tokens,     *)
(*                                 normalize_text_list                     *)
(*   src/src/translate_csv_llm.py  TranslationCache, translate_with_retry, *)
(*                                 call_llm_api_batch, _process_one_batch, *)
(*                                 translate_csv_llm                       *)
(*                                                                         *)
(* Texts are small integers.  NaN is a missing CSV cell, 0 is "", 1 is a   *)
(* whitespace-only string, 2.. are ordinary strings of growing length.     *)
(***************************************************************************)
EXTENDS Integers, Sequences, FiniteSets, TLC

\* ---------------------------------------------------------------- bounds
MaxLen == 3
MaxBudget == 3
MaxText == 4

\* ------------------------------------------------------------ text model
NaN == -1

Texts == NaN .. MaxText

\* utility.py count_tokens: None/NaN are counted as "", everything else is
\* str(text) run through the encoder; longer strings cost more tokens.
count_tokens(text) ==
  LET s == IF text = NaN THEN 0 ELSE text
  IN  IF s = 0 THEN 0 ELSE IF s = 1 THEN 1 ELSE s - 1

\* chunk_by_token_limit.get_text: the "text" of a dict item.
get_text(item) == item.text

\* utility.py build_id_map: ids are the positions 0..n-1.
build_id_map(text_list) ==
  [i \in 1 .. Len(text_list) |-> [id |-> i - 1, text |-> text_list[i]]]

\* Sum of the token costs of a batch of {"id","text"} items.
RECURSIVE BatchTokens(_)
BatchTokens(batch) ==
  IF batch = <<>> THEN 0
  ELSE count_tokens(get_text(Head(batch))) + BatchTokens(Tail(batch))

\* Concatenation of a sequence of batches.
RECURSIVE Concat(_)
Concat(batches) ==
  IF batches = <<>> THEN <<>> ELSE Head(batches) \o Concat(Tail(batches))

\* ------------------------------------- utility.py chunk_by_token_limit
\* Generator state: the pending batch, its token total, the batches yielded.
ChunkInit == [batch |-> <<>>, tokens |-> 0, out |-> <<>>]

\* Mutant: the overflow test ignores the cost of the incoming item.
ChunkStepNoOverflowCost(st, item, max_tokens) ==
  LET text_tokens == count_tokens(get_text(item))
  IN  IF text_tokens > max_tokens
      THEN [batch  |-> <<>>,
            tokens |-> IF st.batch # <<>> THEN 0 ELSE st.tokens,
            out    |-> (IF st.batch # <<>> THEN Append(st.out, st.batch)
                        ELSE st.out) \o << <<item>> >>]
      ELSE IF st.tokens > max_tokens
      THEN [batch |-> <<item>>, tokens |-> text_tokens,
            out |-> Append(st.out, st.batch)]
      ELSE [batch |-> Append(st.batch, item),
            tokens |-> st.tokens + text_tokens, out |-> st.out]

\* Mutant: the oversized branch forgets to yield the pending batch.
ChunkStepDropPending(st, item, max_tokens) ==
  LET text_tokens == count_tokens(get_text(item))
  IN  IF text_tokens > max_tokens
      THEN [batch |-> <<>>, tokens |-> 0,
            out |-> st.out \o << <<item>> >>]
      ELSE IF st.tokens + text_tokens > max_tokens
      THEN [batch |-> <<item>>, tokens |-> text_tokens,
            out |-> Append(st.out, st.batch)]
      ELSE [batch |-> Append(st.batch, item),
            tokens |-> st.tokens + text_tokens, out |-> st.out]

\* One iteration of "for item in items" (utility.py 170-191).
ChunkStep(st, item, max_tokens) ==
  LET text_tokens == count_tokens(get_text(item))
  IN  IF text_tokens > max_tokens
      THEN [batch  |-> <<>>,
            tokens |-> IF st.batch # <<>> THEN 0 ELSE st.tokens,
            out    |-> (IF st.batch # <<>> THEN Append(st.out, st.batch)
                        ELSE st.out) \o << <<item>> >>]
      ELSE IF st.tokens + text_tokens > max_tokens
      THEN [batch |-> <<item>>, tokens |-> text_tokens,
            out |-> Append(st.out, st.batch)]
      ELSE [batch |-> Append(st.batch, item),
            tokens |-> st.tokens + text_tokens, out |-> st.out]

\* The trailing "if batch: yield batch" (utility.py 193-194).
ChunkFlush(st) ==
  IF st.batch # <<>>
  THEN [batch |-> st.batch, tokens |-> st.tokens,
        out |-> Append(st.out, st.batch)]
  ELSE st

RECURSIVE ChunkLoop(_, _, _)
ChunkLoop(st, items, max_tokens) ==
  IF items = <<>> THEN st
  ELSE ChunkLoop(ChunkStep(st, Head(items), max_tokens), Tail(items),
                 max_tokens)

\* The list of batches the generator yields for items.
chunk_by_token_limit(items, max_tokens) ==
  ChunkFlush(ChunkLoop(ChunkInit, items, max_tokens)).out


\* ------------------------- translate_csv_llm.py inline batching (224-258)
\* One iteration of "for idx, text in items": the new pending batch and the
\* batches handed to _process_one_batch, in call order.
InlineStep(st, item, max_tokens) ==
  LET text_tokens == count_tokens(item.text)
  IN  IF text_tokens > max_tokens
      THEN [batch  |-> <<>>,
            tokens |-> IF st.batch # <<>> THEN 0 ELSE st.tokens,
            handed |-> (IF st.batch # <<>> THEN << st.batch >> ELSE <<>>)
                       \o << <<item>> >>]
      ELSE IF st.tokens + text_tokens > max_tokens
      THEN [batch |-> <<item>>, tokens |-> text_tokens,
            handed |-> << st.batch >>]
      ELSE [batch |-> Append(st.batch, item),
            tokens |-> st.tokens + text_tokens, handed |-> <<>>]

\* The trailing "if current_batch:" after the loop (254-258).
InlineFlush(st) == IF st.batch # <<>> THEN << st.batch >> ELSE <<>>

\* ------------------------------------------------ configuration, values
\* [LLM] MAX_INPUT_TOKENS and MAX_RETRY of config/setting.ini.
MAX_INPUT_TOKENS == 3
MAX_RETRY == 2

MaxRows == 3
MaxFairRows == 2

Types == {"A", "B"}

\* Cell texts of the table: missing, cost 1, cost 2, cost 4 (over the budget).
RowTexts == {NaN, 2, 3, 5}

\* The same with a whitespace-only cell (cost 1), for the smaller tables.
WideRowTexts == RowTexts \cup {1}

NONE == <<"none", 0>>                  \* Python None
EMPTY == <<"str", 0>>                  \* ""
Tr(t) == <<"tr", t>>                   \* a translation made from text t
Hallucinated == <<"tr", -2>>           \* a translation made from no item
Marker(t) == <<"failed", t>>           \* f"[翻訳失敗: {t}]"
Str(t) == <<"str", t>>                 \* the text itself

\* utility.py normalize_text_list: None and NaN become "", the rest str(t).
normalize_text(t) == IF t = NaN THEN 0 ELSE t

normalize_text_list(text_list) ==
  [i \in 1 .. Len(text_list) |-> normalize_text(text_list[i])]

\* t.strip() == ""
IsBlank(t) == t \in {0, 1}

\* TranslationCache.get / TranslationCache.set: a dict keyed by
\* (record_type, text); get of a missing key is None.
CacheGet(c, record_type, text) ==
  IF <<record_type, text>> \in DOMAIN c THEN c[<<record_type, text>>]
  ELSE NONE

CacheSet(c, record_type, text, translated) ==
  (<<record_type, text>> :> translated) @@ c

\* dict.get(key, default) on a model dict
DictGet(d, k, default) == IF k \in DOMAIN d THEN d[k] ELSE default

Ids(items) == {items[i].id : i \in 1 .. Len(items)}

\* A Python dict whose iteration order matters (final_results): a sequence
\* of <<key, value>> pairs in insertion order.
ODKeys(d) == {d[i][1] : i \in 1 .. Len(d)}

ODSet(d, k, v) ==
  IF k \in ODKeys(d)
  THEN [i \in 1 .. Len(d) |-> IF d[i][1] = k THEN <<k, v>> ELSE d[i]]
  ELSE Append(d, <<k, v>>)

\* --------------------------------- translate_csv_llm.py call_llm_api_batch
\* non_empty_items (94-97) as {"id","text"} items, ids are list positions.
\* Mutant: the filter is t != "" and lets whitespace-only texts through.
RECURSIVE NonEmptyFromNoStrip(_, _)
NonEmptyFromNoStrip(safe, i) ==
  IF i > Len(safe) THEN <<>>
  ELSE (IF safe[i] = 0 THEN <<>> ELSE << [id |-> i - 1, text |-> safe[i]] >>)
       \o NonEmptyFromNoStrip(safe, i + 1)

RECURSIVE NonEmptyFrom(_, _)
NonEmptyFrom(safe, i) ==
  IF i > Len(safe) THEN <<>>
  ELSE (IF IsBlank(safe[i]) THEN <<>> ELSE << [id |-> i - 1, text |-> safe[i]] >>)
       \o NonEmptyFrom(safe, i + 1)

NonEmptyItems(safe) == NonEmptyFrom(safe, 1)

\* Mutant: the cache is consulted per batch, one miss submits every item.
UncachedItemsPerBatch(c, record_type, non_empty) ==
  IF \E i \in 1 .. Len(non_empty) :
       CacheGet(c, record_type, non_empty[i].text) = NONE
  THEN non_empty ELSE <<>>

\* uncached_items (107-112): the non-empty items the cache does not hold.
UncachedItems(c, record_type, non_empty) ==
  LET Miss(item) == CacheGet(c, record_type, item.text) = NONE
  IN  SelectSeq(non_empty, Miss)

\* translated_map after the cache pass (107-112): the cache hits.
CachedMap(c, record_type, non_empty) ==
  LET hit == {i \in 1 .. Len(non_empty) :
                CacheGet(c, record_type, non_empty[i].text) # NONE}
  IN  [k \in {non_empty[i].id : i \in hit} |->
         CacheGet(c, record_type,
                  (CHOOSE it \in {non_empty[i] : i \in hit} : it.id = k).text)]

\* The all-cached return (116-122).
RestoreCached(safe, tmap) ==
  [i \in 1 .. Len(safe) |->
     IF IsBlank(safe[i]) THEN EMPTY ELSE DictGet(tmap, i - 1, NONE)]

\* "元の順序で復元" (164-171).
Restore(safe, tmap) ==
  [i \in 1 .. Len(safe) |->
     IF IsBlank(safe[i]) THEN EMPTY ELSE DictGet(tmap, i - 1, Str(safe[i]))]

\* original_id_text (129)
OriginalIdText(uncached) ==
  [k \in Ids(uncached) |->
     (CHOOSE it \in {uncached[i] : i \in 1 .. Len(uncached)} : it.id = k).text]

\* Mutant: the results are stored without the cache write.
RECURSIVE StoreResultsNoCache(_, _, _, _, _)
StoreResultsNoCache(result_map, i, tmap, c, ctx) ==
  IF i > Len(result_map) THEN [tmap |-> tmap, cache |-> c]
  ELSE StoreResultsNoCache(result_map, i + 1,
                           (result_map[i][1] :> result_map[i][2]) @@ tmap,
                           c, ctx)

\* "結果格納" (153-156): translated_map and the cache after the loop over
\* result_map.items(), in insertion order.
RECURSIVE StoreResults(_, _, _, _, _)
StoreResults(result_map, i, tmap, c, ctx) ==
  IF i > Len(result_map) THEN [tmap |-> tmap, cache |-> c]
  ELSE LET id == result_map[i][1]
           text == result_map[i][2]
       IN  StoreResults(result_map, i + 1, (id :> text) @@ tmap,
                        CacheSet(c, ctx.record_type, ctx.original[id], text),
                        ctx)

\* "失敗分は元文字列を出力" (159-161).
StoreFailed(failed_items, tmap) ==
  [k \in Ids(failed_items) |->
     Marker((CHOOSE it \in {failed_items[i] : i \in 1 .. Len(failed_items)} :
               it.id = k).text)] @@ tmap

\* -------------------------------- translate_csv_llm.py translate_with_retry
\* The remote (pipeline.invoke): a structurally valid answer is a list of
\* {id, text}; it carries any subset of the requested ids, in request order,
\* each with a translation of the requested text, and possibly one more item
\* under an id that was not requested (extra_ids are the candidates).
Answer(request, picked, extra) ==
  LET Picked(item) == item.id \in picked
      sub == SelectSeq(request, Picked)
      honest == [i \in 1 .. Len(sub) |->
                   [id |-> sub[i].id, text |-> Tr(sub[i].text)]]
  IN  IF extra = {} THEN honest
      ELSE Append(honest, [id |-> CHOOSE e \in extra : TRUE,
                           text |-> Hallucinated])

Answers(request, extra_ids) ==
  {Answer(request, picked, extra) :
     picked \in SUBSET Ids(request),
     extra \in {{}} \cup {{e} : e \in extra_ids \ Ids(request)}}

\* Lines 69-72: every returned item is stored under its id.
RECURSIVE AcceptAll(_, _)
AcceptAll(results, translations) ==
  IF translations = <<>> THEN results
  ELSE AcceptAll(ODSet(results, Head(translations).id,
                       Head(translations).text),
                 Tail(translations))

\* Mutant: the next attempt submits the whole batch again.
StillMissingNone(rem, translations) == rem

\* Lines 74-77: the items whose id the answer does not carry.
StillMissing(rem, translations) ==
  LET returned_ids == Ids(translations)
      Missing(item) == item.id \notin returned_ids
  IN  SelectSeq(rem, Missing)

\* ------------------------------------------------- prompt configuration
\* Strings whose letters matter are sequences of one-character strings.
UpperChars ==
  <<"A", "B", "C", "D", "E", "F", "G", "H", "I", "J", "K", "L", "M",
    "N", "O", "P", "Q", "R", "S", "T", "U", "V", "W", "X", "Y", "Z">>
LowerChars ==
  <<"a", "b", "c", "d", "e", "f", "g", "h", "i", "j", "k", "l", "m",
    "n", "o", "p", "q", "r", "s", "t", "u", "v", "w", "x", "y", "z">>

\* str.lower()
lower(str) ==
  [i \in 1 .. Len(str) |->
     IF \E k \in 1 .. 26 : UpperChars[k] = str[i]
     THEN LowerChars[CHOOSE k \in 1 .. 26 : UpperChars[k] = str[i]]
     ELSE str[i]]

\* str.startswith(prefix)
startswith(str, prefix) ==
  Len(str) >= Len(prefix) /\ SubSeq(str, 1, Len(prefix)) = prefix

\* str.removeprefix(prefix)
removeprefix(str, prefix) ==
  IF startswith(str, prefix) THEN SubSeq(str, Len(prefix) + 1, Len(str))
  ELSE str

\* str.replace("_", " ")
replace_underscore(str) ==
  [i \in 1 .. Len(str) |-> IF str[i] = "_" THEN " " ELSE str[i]]

\* Option names of the [LLM] section as they are written in the file.
OPT_TEMPLATE ==
  <<"P", "R", "O", "M", "P", "T", "_", "T", "E", "M", "P", "L", "A", "T",
  "E">>
OPT_OTHERS ==
  <<"P", "R", "O", "M", "P", "T", "_", "O", "T", "H", "E", "R", "S">>
OPT_DIAL_FULL ==
  <<"P", "R", "O", "M", "P", "T", "_", "D", "I", "A", "L", "_", "F", "U",
  "L", "L">>
OPT_BOOK ==
  <<"P", "R", "O", "M", "P", "T", "_", "B", "O", "O", "K">>
OPT_info ==
  <<"p", "r", "o", "m", "p", "t", "_", "i", "n", "f", "o">>
OPT_MODEL ==
  <<"L", "L", "M", "_", "M", "O", "D", "E", "L">>

\* Record types of the table, and the fallback key.
TYPE_DIAL_FULL ==
  <<"D", "I", "A", "L", " ", "F", "U", "L", "L">>
TYPE_dial_full ==
  <<"d", "i", "a", "l", " ", "f", "u", "l", "l">>
TYPE_BOOK ==
  <<"B", "O", "O", "K">>
TYPE_info ==
  <<"i", "n", "f", "o">>
TYPE_WEAP ==
  <<"W", "E", "A", "P">>
others ==
  <<"o", "t", "h", "e", "r", "s">>
prompt_ ==
  <<"p", "r", "o", "m", "p", "t", "_">>
prompt_template ==
  <<"p", "r", "o", "m", "p", "t", "_", "t", "e", "m", "p", "l", "a", "t",
  "e">>

PerTypeOptions == {OPT_OTHERS, OPT_DIAL_FULL, OPT_BOOK, OPT_info, OPT_MODEL}
RecordTypes ==
  {TYPE_DIAL_FULL, TYPE_dial_full, TYPE_BOOK, TYPE_info, TYPE_WEAP, others}

\* The value of an option: the text written for it, named by the option.
ValueOf(option) == <<"value", option>>

\* get_Config_Parser (201-207): ConfigParser.read stores every option
\* under optionxform(name), which is str.lower.
get_Config_Parser(options) ==
  [key \in {lower(o) : o \in options} |->
     ValueOf(CHOOSE o \in options : lower(o) = key)]

\* base_template + value.lstrip() + input_suffix (228-232)
Template(base, value) == <<"template", base, value>>

\* utility.py build_prompt_map (209-234)
build_prompt_map(llm_cfg) ==
  LET base_template == llm_cfg[lower(OPT_TEMPLATE)]
      keys == {key \in DOMAIN llm_cfg :
                 startswith(key, prompt_) /\ key # prompt_template}
      Name(key) == replace_underscore(removeprefix(key, prompt_))
  IN  [prompt_name \in {Name(key) : key \in keys} |->
         Template(base_template,
                  llm_cfg[CHOOSE key \in keys : Name(key) = prompt_name])]

\* What PROMPT_MAP.get(record_type, PROMPT_MAP["others"]) raises when the
\* map has no "others": the default is evaluated before get is called.
KeyErrorOthers == <<"KeyError", others>>

\* PROMPT_MAP.get(record_type, PROMPT_MAP["others"]) (133)
ResolvePromptOf(prompt_map, record_type) ==
  IF others \notin DOMAIN prompt_map THEN KeyErrorOthers
  ELSE IF record_type \in DOMAIN prompt_map THEN prompt_map[record_type]
  ELSE prompt_map[others]

\* ------------------------------------------- utility.py load order
MaxMods == 3

\* File names, letter by letter.
F_a == <<"a", ".", "e", "s", "p">>
F_xa == <<"x", "a", ".", "e", "s", "p">>
F_txt == <<"n", ".", "t", "x", "t">>
Files == {F_a, F_xa, F_txt}

PLUGIN_EXTENSIONS ==
  {<<".", "e", "s", "p">>, <<".", "e", "s", "m">>, <<".", "e", "s", "l">>}

\* Path.suffix: the name from its last "." on, "" without one.
suffix(name) ==
  LET dots == {i \in 2 .. Len(name) : name[i] = "."}
  IN  IF dots = {} THEN <<>>
      ELSE SubSeq(name, CHOOSE i \in dots : \A j \in dots : j <= i, Len(name))

\* file.suffix.lower() in PLUGIN_EXTENSIONS (84)
IsPlugin(name) == lower(suffix(name)) \in PLUGIN_EXTENSIONS

\* Entries of mods/: two mod directories, a name that does not exist and
\* a name that is a plain file.
ModNames == {"m1", "m2", "gone", "afile"}

\* Lines of modlist.txt: "+name" is an enabled mod, "-name" a disabled one.
ModlistLines ==
  {[flag |-> "+", name |-> m] : m \in ModNames}
    \cup {[flag |-> "-", name |-> "m2"]}

\* The enabled mods of modlist.txt, in file order (63-71).
EnabledMods(lines) ==
  LET Enabled(line) == line.flag = "+"
      on == SelectSeq(lines, Enabled)
  IN  [i \in 1 .. Len(on) |-> on[i].name]

\* mod_folder_path.exists() and mod_folder_path.is_dir() (79)
IsDir(fs, mod) == fs[mod].kind = "dir"

\* file.resolve(): the path of a file of a mod directory.
PathOf(mod, name) == [mod |-> mod, name |-> name]

\* Mutant: a later mod overwrites the entry of an earlier one.
RECURSIVE ScanModLastWins(_, _, _)
ScanModLastWins(pmap, mod, files) ==
  IF files = <<>> THEN pmap
  ELSE ScanModLastWins(
         IF IsPlugin(Head(files))
         THEN ODSet(pmap, Head(files), PathOf(mod, Head(files)))
         ELSE pmap,
         mod, Tail(files))

\* Mutant: the map is keyed by the path, every plugin file of every mod
\* gets an entry.
RECURSIVE ScanModKeyedByPath(_, _, _)
ScanModKeyedByPath(pmap, mod, files) ==
  IF files = <<>> THEN pmap
  ELSE ScanModKeyedByPath(
         IF IsPlugin(Head(files))
         THEN ODSet(pmap, PathOf(mod, Head(files)), PathOf(mod, Head(files)))
         ELSE pmap,
         mod, Tail(files))

\* for file in mod_folder_path.iterdir(): ... (83-86), files in the order
\* iterdir yields them.
RECURSIVE ScanMod(_, _, _)
ScanMod(pmap, mod, files) ==
  IF files = <<>> THEN pmap
  ELSE ScanMod(
         IF IsPlugin(Head(files)) /\ Head(files) \notin ODKeys(pmap)
         THEN ODSet(pmap, Head(files), PathOf(mod, Head(files)))
         ELSE pmap,
         mod, Tail(files))

\* The orders in which iterdir can yield the files of a directory.
Orders(S) ==
  {f \in [1 .. Cardinality(S) -> S] :
     \A i, j \in 1 .. Cardinality(S) : i # j => f[i] # f[j]}

\* ------------------------------------------------ main.py, the snapshot
MaxMtime == 2

\* An empty dict.
EmptyFn0 == [k \in {} |-> 0]

\* st_mtime of a plugin file; 0 stands for a stat() that raises.
Mtimes == 0 .. MaxMtime

\* f"{mtime}" and float(ts): the text of a float, and what float() makes
\* of a text; a text that is no number raises ValueError.
FormatTs(t) == <<"repr", t>>
IsFloatText(ts) == ts[1] = "repr"
ParseTs(ts) == ts[2]

\* A line "name<TAB>ts" of plugin_timestamps.txt.
Line(name, ts) == [name |-> name, ts |-> ts]

\* utility.py load_previous_timestamps (248-266): the lines whose ts
\* parses, a later line replacing an earlier one of the same name.
RECURSIVE LoadLines(_, _)
LoadLines(lines, result) ==
  IF lines = <<>> THEN result
  ELSE LoadLines(Tail(lines),
                 IF IsFloatText(Head(lines).ts)
                 THEN (Head(lines).name :> ParseTs(Head(lines).ts)) @@ result
                 ELSE result)

load_previous_timestamps(file) ==
  IF ~file.exists THEN EmptyFn0 ELSE LoadLines(file.lines, EmptyFn0)

\* Mutant: the file is opened with "w" inside the loop, only the line of
\* the last plugin whose stat succeeds stays.
save_current_timestamps_reopening(plugins, mt) ==
  LET Readable(plugin) == mt[plugin.name] # 0
      ok == SelectSeq(plugins, Readable)
  IN  [exists |-> TRUE,
       lines |-> IF ok = <<>> THEN <<>>
                 ELSE <<Line(ok[Len(ok)].name,
                             FormatTs(mt[ok[Len(ok)].name]))>>]

\* utility.py save_current_timestamps (236-246): the file is opened with
\* "w"; one line per plugin whose stat succeeds.
save_current_timestamps(plugins, mt) ==
  LET Readable(plugin) == mt[plugin.name] # 0
      ok == SelectSeq(plugins, Readable)
  IN  [exists |-> TRUE,
       lines |-> [i \in 1 .. Len(ok) |->
                    Line(ok[i].name, FormatTs(mt[ok[i].name]))]]

\* needle in hay, for two str: a substring test.
Contains(hay, needle) ==
  \E i \in 0 .. Len(hay) - Len(needle) :
    SubSeq(hay, i + 1, i + Len(needle)) = needle

\* filtered_plugins (80-83)
FilterExcluded(plugins, exclude) ==
  LET Kept(plugin) == ~Contains(exclude, plugin.name)
  IN  SelectSeq(plugins, Kept)

\* process_plugin (21-49) given the results of its stages in order: each
\* stage returns True ("ok"), returns False ("false") or raises ("raise").
RECURSIVE process_plugin(_, _)
process_plugin(results, stage) ==
  IF stage > 3 THEN "ok"
  ELSE IF results[stage] = "ok" THEN process_plugin(results, stage + 1)
  ELSE IF results[stage] = "false"
  THEN <<"extract_failed", "translate_failed", "convert_failed">>[stage]
  ELSE "exception_logged"

Stages == <<"extract", "translate", "convert">>

\* The files a pipeline writes: CSV_DIR/<name>.csv (32; extract_save_csv
\* 24) and DSD_DIR/<name>/<name>.json (39).
csv_path(plugin) == <<"CSV_DIR", plugin.name \o <<".", "c", "s", "v">>>>
json_path(plugin) ==
  <<"DSD_DIR", plugin.name, plugin.name \o <<".", "j", "s", "o", "n">>>>

\* Mutant: process_plugin has no except clause, the exception stays in
\* the future.
TaskRaisedUncaught(t) ==
  [t EXCEPT !.st = "finished", !.results = Append(t.results, "raise"),
            !.outcome = "exception", !.exc = TRUE]

\* except Exception: print, traceback (47-49); the task returns None.
TaskRaised(t) ==
  [t EXCEPT !.st = "finished", !.results = Append(t.results, "raise"),
            !.outcome = "exception_logged", !.exc = FALSE]

\* ------------------------------------------------------------------ state
VARIABLES
  input,            \* texts given to the two batchers on their own
  budget,           \* max_tokens given to them
  gen,              \* chunk_by_token_limit generator: position, state, done
  inl,              \* inline batcher of translate_csv_llm run on its own
  df,               \* the table: rows [type, string]
  Translated,       \* df["Translated"]
  cache,            \* translation_cache._cache
  pc,               \* translate_csv_llm: "group", "scan", "done", "off"
  call_pc,          \* call_llm_api_batch: "idle", "retry", "raised"
  types_left,       \* groups of df.groupby("type") still to visit
  record_type,
  items,            \* (index, string) pairs of the group
  pos,              \* next item of the group
  current_batch,
  current_tokens,
  pending,          \* batches this iteration still hands to _process_one_batch
  idx_chunk,        \* _process_one_batch
  safe_text_list,   \* call_llm_api_batch
  translated_map,
  uncached_items,
  token_batches,    \* the current and the later token batches
  translated_chunk, \* what the last call_llm_api_batch returned
  input_items,      \* translate_with_retry
  remaining,
  final_results,
  retry,
  last_call,        \* history: the last remote call of this translate_with_retry
  invocations,      \* history: the number of its remote calls
  answered,         \* history: the ids its successful answers carried
  returned,         \* history: per row, the texts answered under its id
  ret_keys,         \* history: (type, text) the remote has translated
  prev_run,         \* history: "none", or how the run before this one ended
  llm_options,      \* option names of [LLM] as written in config/setting.ini
  PROMPT_MAP,       \* translate_csv_llm.PROMPT_MAP
  asked_type,       \* record_type of a call_llm_api_batch
  prompt,           \* the user prompt it resolved
  prompt_pc,        \* "off", "import", "ready", "resolved"
  modlist,          \* lines of profiles/<profile>/modlist.txt
  mods_fs,          \* mods/: per entry its kind and, for a directory, its files
  mod_dirs,         \* find_mod_plugins_from_profile: enabled mods
  mod_pos,          \* next entry of mod_dirs
  plugin_map,       \* filename -> path, in insertion order
  plugin_list,      \* what find_mod_plugins_from_profile returned
  resolve_pc,       \* "off", "read", "loop", "returned"
  ts_file,          \* plugin_timestamps.txt: exists, lines
  mtime,            \* file system: st_mtime per plugin file name, 0 = stat fails
  exclude_plugins,  \* CONFIG["GENERAL"].get("EXCLUDE_PLUGINS")
  MAX_PARALLEL,     \* CONFIG.getint("GENERAL", "MAX_PARALLEL")
  main_pc,          \* position of main()
  previous_timestamps,
  updated_plugins,
  det_pos,          \* next plugin of the detection loop
  filtered_plugins,
  max_workers,
  submitted,        \* number of futures made
  task,             \* per future: state, stage results, outcome, exception
  collected         \* futures whose result() main has called

batcher_vars == <<input, budget, gen, inl>>
table_vars == <<df, Translated, cache>>
scan_vars == <<pc, types_left, record_type, items, pos, current_batch,
               current_tokens, pending>>
call_vars == <<call_pc, idx_chunk, safe_text_list, translated_map,
               uncached_items, token_batches, translated_chunk>>
retry_vars == <<input_items, remaining, final_results, retry, last_call,
                invocations, answered>>
hist_vars == <<returned, ret_keys>>
prompt_vars == <<llm_options, PROMPT_MAP, asked_type, prompt, prompt_pc>>
resolve_vars == <<modlist, mods_fs, mod_dirs, mod_pos, plugin_map,
                  plugin_list, resolve_pc>>
env_vars == <<ts_file, mtime, exclude_plugins, MAX_PARALLEL>>
detect_vars == <<previous_timestamps, updated_plugins, det_pos>>
pool_vars == <<filtered_plugins, max_workers, submitted, task, collected>>
main_vars == <<env_vars, main_pc, detect_vars, pool_vars>>
aside_vars == <<prompt_vars, resolve_vars, main_vars>>
vars == <<batcher_vars, table_vars, scan_vars, call_vars, retry_vars,
          hist_vars, prev_run, aside_vars>>

SeqsUpTo(S, n) == UNION {[1 .. k -> S] : k \in 0 .. n}

EmptyFn == [k \in {} |-> NONE]

\* No remote call made yet.
NoCall == [req |-> <<>>, ok |-> FALSE, translations |-> <<>>]

\* df.groupby("type") visits the types in sorted order.
TypeOrder == <<"A", "B">>

GroupTypes(table) ==
  LET Present(ty) == \E i \in 1 .. Len(table) : table[i].type = ty
  IN  SelectSeq(TypeOrder, Present)

\* items = list(zip(group_df.index, group_df["string"])) (218)
GroupItems(table, ty) ==
  LET all == [i \in 1 .. Len(table) |-> [idx |-> i, text |-> table[i].string]]
      InGroup(it) == table[it.idx].type = ty
  IN  SelectSeq(all, InGroup)

GenIdle == [pos |-> 1, st |-> ChunkInit, done |-> TRUE]
InlIdle == [pos |-> 1, batch |-> <<>>, tokens |-> 0, out |-> <<>>,
            done |-> TRUE]

\* The prompt configuration is not looked at: the pipeline runs with a
\* configuration whose prompt resolution succeeds.
PromptIdle ==
  /\ llm_options = {} /\ PROMPT_MAP = EmptyFn /\ asked_type = <<>>
  /\ prompt = NONE /\ prompt_pc = "off"

\* find_mod_plugins_from_profile is not running.
ResolveIdle ==
  /\ modlist = <<>> /\ mods_fs = EmptyFn /\ mod_dirs = <<>> /\ mod_pos = 1
  /\ plugin_map = <<>> /\ plugin_list = <<>> /\ resolve_pc = "off"

\* main() is not running.
MainIdle ==
  /\ ts_file = [exists |-> FALSE, lines |-> <<>>] /\ mtime = EmptyFn
  /\ exclude_plugins = <<>> /\ MAX_PARALLEL = 1 /\ main_pc = "off"
  /\ previous_timestamps = EmptyFn /\ updated_plugins = <<>> /\ det_pos = 1
  /\ filtered_plugins = <<>> /\ max_workers = 0 /\ submitted = 0
  /\ task = <<>> /\ collected = {}

\* State of the pipeline variables in which translate_csv_llm starts on table.
RunStart(table) ==
  /\ df = table
  /\ Translated = [i \in 1 .. Len(table) |-> NONE]
  /\ cache = EmptyFn
  /\ call_pc = "idle"
  /\ types_left = GroupTypes(table)
  /\ record_type = "A"
  /\ items = <<>>
  /\ pos = 1
  /\ current_batch = <<>>
  /\ current_tokens = 0
  /\ pending = <<>>
  /\ idx_chunk = <<>>
  /\ safe_text_list = <<>>
  /\ translated_map = EmptyFn
  /\ uncached_items = <<>>
  /\ token_batches = <<>>
  /\ translated_chunk = <<>>
  /\ input_items = <<>>
  /\ remaining = <<>>
  /\ final_results = <<>>
  /\ retry = 0
  /\ last_call = NoCall
  /\ invocations = 0
  /\ answered = {}
  /\ returned = [i \in 1 .. Len(table) |-> {}]
  /\ ret_keys = {}

\* translate_csv_llm has read the CSV, added the Translated column and
\* made an empty cache (208-212).
Init ==
  /\ input = <<>> /\ budget = 0 /\ gen = GenIdle /\ inl = InlIdle
  /\ pc = "group" /\ prev_run = "none" /\ PromptIdle /\ ResolveIdle
  /\ MainIdle
  /\ \E table \in SeqsUpTo([type : Types, string : RowTexts], MaxRows) :
       RunStart(table)

\* The batchers on their own: any item list, any budget.
InitBatchers ==
  /\ input \in SeqsUpTo(Texts, MaxLen)
  /\ budget \in 0 .. MaxBudget
  /\ gen = [pos |-> 1, st |-> ChunkInit, done |-> FALSE]
  /\ inl = [pos |-> 1, batch |-> <<>>, tokens |-> 0, out |-> <<>>,
            done |-> FALSE]
  /\ pc = "off" /\ prev_run = "none" /\ PromptIdle /\ ResolveIdle
  /\ MainIdle
  /\ RunStart(<<>>)

\* -------------------------------------------------- the batchers alone
run_vars == <<table_vars, scan_vars, call_vars, retry_vars, hist_vars>>
outside_batchers == <<run_vars, prev_run, aside_vars>>
outside_run == <<batcher_vars, prev_run, aside_vars>>

\* chunk_by_token_limit: one iteration of the for loop.
GenNext ==
  /\ ~gen.done /\ gen.pos <= Len(input)
  /\ gen' = [pos |-> gen.pos + 1,
             st |-> ChunkStep(gen.st, build_id_map(input)[gen.pos], budget),
             done |-> FALSE]
  /\ UNCHANGED <<input, budget, inl, outside_batchers>>

\* chunk_by_token_limit: the loop is over, the last batch is yielded.
GenFinish ==
  /\ ~gen.done /\ gen.pos > Len(input)
  /\ gen' = [pos |-> gen.pos, st |-> ChunkFlush(gen.st), done |-> TRUE]
  /\ UNCHANGED <<input, budget, inl, outside_batchers>>

\* translate_csv_llm batching loop: one iteration, _process_one_batch
\* replaced by a record of the batches it is handed.
InlNext ==
  /\ ~inl.done /\ inl.pos <= Len(input)
  /\ LET r == InlineStep([batch |-> inl.batch, tokens |-> inl.tokens],
                         [idx |-> inl.pos, text |-> input[inl.pos]], budget)
     IN  inl' = [pos |-> inl.pos + 1, batch |-> r.batch, tokens |-> r.tokens,
                 out |-> inl.out \o r.handed, done |-> FALSE]
  /\ UNCHANGED <<input, budget, gen, outside_batchers>>

InlFinish ==
  /\ ~inl.done /\ inl.pos > Len(input)
  /\ inl' = [inl EXCEPT !.out = inl.out \o InlineFlush(inl), !.done = TRUE]
  /\ UNCHANGED <<input, budget, gen, outside_batchers>>

NextBatchers == GenNext \/ GenFinish \/ InlNext \/ InlFinish

SpecBatchers == InitBatchers /\ [][NextBatchers]_vars

\* ------------------------------------------------------ translate_csv_llm
\* for record_type, group_df in df.groupby("type") (214-222)
NextGroup ==
  /\ pc = "group" /\ call_pc = "idle" /\ pending = <<>>
  /\ types_left # <<>>
  /\ record_type' = Head(types_left)
  /\ types_left' = Tail(types_left)
  /\ items' = GroupItems(df, Head(types_left))
  /\ pos' = 1
  /\ current_batch' = <<>>
  /\ current_tokens' = 0
  /\ pc' = "scan"
  /\ UNCHANGED <<pending, outside_run, table_vars, call_vars, retry_vars,
                 hist_vars>>

\* for idx, text in items (224-252): the batches the iteration closes are
\* handed to _process_one_batch before the next iteration.
ScanItem ==
  /\ pc = "scan" /\ call_pc = "idle" /\ pending = <<>>
  /\ pos <= Len(items)
  /\ LET r == InlineStep([batch |-> current_batch, tokens |-> current_tokens],
                         items[pos], MAX_INPUT_TOKENS)
     IN  /\ current_batch' = r.batch
         /\ current_tokens' = r.tokens
         /\ pending' = r.handed
  /\ pos' = pos + 1
  /\ UNCHANGED <<pc, types_left, record_type, items, outside_run, table_vars,
                 call_vars, retry_vars, hist_vars>>

\* if current_batch: (254-258)
ScanEnd ==
  /\ pc = "scan" /\ call_pc = "idle" /\ pending = <<>>
  /\ pos > Len(items)
  /\ pending' = InlineFlush([batch |-> current_batch])
  /\ pc' = "group"
  /\ UNCHANGED <<types_left, record_type, items, pos, current_batch,
                 current_tokens, outside_run, table_vars, call_vars,
                 retry_vars, hist_vars>>

\* df.to_csv(csv_path) and return True (262-264)
SaveCsv ==
  /\ pc = "group" /\ call_pc = "idle" /\ pending = <<>>
  /\ types_left = <<>>
  /\ pc' = "done"
  /\ UNCHANGED <<types_left, record_type, items, pos, current_batch,
                 current_tokens, pending, outside_run, table_vars, call_vars,
                 retry_vars, hist_vars>>

\* ------------------------------ _process_one_batch / call_llm_api_batch
\* Mutant: the translated texts are written to the rows of the batch in
\* reverse order.
WriteBackReversed(col, idxs, texts) ==
  [r \in 1 .. Len(col) |->
     IF \E i \in 1 .. Len(idxs) : idxs[i] = r /\ i <= Len(texts)
     THEN texts[Len(texts) + 1 - (CHOOSE i \in 1 .. Len(idxs) : idxs[i] = r)]
     ELSE col[r]]

\* for i, translated_text in zip(idx_chunk, translated_chunk):
\*     df.at[i, "Translated"] = translated_text          (196-197)
WriteBack(col, idxs, texts) ==
  [r \in 1 .. Len(col) |->
     IF \E i \in 1 .. Len(idxs) : idxs[i] = r /\ i <= Len(texts)
     THEN texts[CHOOSE i \in 1 .. Len(idxs) : idxs[i] = r]
     ELSE col[r]]

BatchIdx(batch) == [i \in 1 .. Len(batch) |-> batch[i].idx]
BatchTexts(batch) == [i \in 1 .. Len(batch) |-> batch[i].text]

CanStartBatch ==
  /\ pc \in {"scan", "group"} /\ call_pc = "idle" /\ pending # <<>>

\* The locals of a call that makes no remote request.
NoRetryLocals ==
  /\ uncached_items' = <<>>
  /\ token_batches' = <<>>
  /\ input_items' = <<>>
  /\ remaining' = <<>>
  /\ final_results' = <<>>
  /\ retry' = 0
  /\ last_call' = NoCall
  /\ invocations' = 0
  /\ answered' = {}

\* _process_one_batch on a batch whose texts are all empty (93-101).
BatchAllEmpty ==
  /\ CanStartBatch
  /\ LET batch == Head(pending)
         safe == normalize_text_list(BatchTexts(batch))
         out == [i \in 1 .. Len(safe) |-> EMPTY]
     IN  /\ NonEmptyItems(safe) = <<>>
         /\ idx_chunk' = BatchIdx(batch)
         /\ safe_text_list' = safe
         /\ translated_map' = EmptyFn
         /\ translated_chunk' = out
         /\ Translated' = WriteBack(Translated, BatchIdx(batch), out)
  /\ NoRetryLocals
  /\ pending' = Tail(pending)
  /\ UNCHANGED <<call_pc, df, cache, pc, types_left, record_type, items, pos,
                 current_batch, current_tokens, outside_run, hist_vars>>

\* _process_one_batch on a batch whose non-empty texts are all cached
\* (103-122).
BatchAllCached ==
  /\ CanStartBatch
  /\ LET batch == Head(pending)
         safe == normalize_text_list(BatchTexts(batch))
         non_empty == NonEmptyItems(safe)
         tmap == CachedMap(cache, record_type, non_empty)
         out == RestoreCached(safe, tmap)
     IN  /\ non_empty # <<>>
         /\ UncachedItems(cache, record_type, non_empty) = <<>>
         /\ Cardinality(DOMAIN tmap) = Len(non_empty)
         /\ idx_chunk' = BatchIdx(batch)
         /\ safe_text_list' = safe
         /\ translated_map' = tmap
         /\ translated_chunk' = out
         /\ Translated' = WriteBack(Translated, BatchIdx(batch), out)
  /\ NoRetryLocals
  /\ pending' = Tail(pending)
  /\ UNCHANGED <<call_pc, df, cache, pc, types_left, record_type, items, pos,
                 current_batch, current_tokens, outside_run, hist_vars>>

\* _process_one_batch on a batch with uncached texts: call_llm_api_batch up
\* to the first translate_with_retry (103-150, 53-54).
BatchStartCall ==
  /\ CanStartBatch
  /\ LET batch == Head(pending)
         safe == normalize_text_list(BatchTexts(batch))
         non_empty == NonEmptyItems(safe)
         tmap == CachedMap(cache, record_type, non_empty)
         uncached == UncachedItems(cache, record_type, non_empty)
         batches == chunk_by_token_limit(uncached, MAX_INPUT_TOKENS)
     IN  /\ non_empty # <<>>
         /\ ~(uncached = <<>> /\ Cardinality(DOMAIN tmap) = Len(non_empty))
         /\ idx_chunk' = BatchIdx(batch)
         /\ safe_text_list' = safe
         /\ translated_map' = tmap
         /\ uncached_items' = uncached
         /\ token_batches' = batches
         /\ input_items' = Head(batches)
         /\ remaining' = Head(batches)
  /\ final_results' = <<>>
  /\ retry' = 0
  /\ last_call' = NoCall
  /\ invocations' = 0
  /\ answered' = {}
  /\ call_pc' = "retry"
  /\ UNCHANGED <<translated_chunk, pending, table_vars, pc, types_left,
                 record_type, items, pos, current_batch, current_tokens,
                 outside_run, hist_vars>>

\* ---------------------------------------------------- translate_with_retry
\* Mutant: the loop allows one attempt too many.
LoopRunsOffByOne == retry <= MAX_RETRY + 1 /\ remaining # <<>>

\* for retry in range(MAX_RETRY + 1): if not remaining: break   (56-58)
LoopRuns == retry <= MAX_RETRY /\ remaining # <<>>

\* pipeline.invoke returns a TranslationResult (61, 69-77).
InvokeOk ==
  /\ call_pc = "retry" /\ LoopRuns
  /\ \E result \in Answers(remaining, 0 .. Len(safe_text_list)) :
       /\ final_results' = AcceptAll(final_results, result)
       /\ remaining' = StillMissing(remaining, result)
       /\ last_call' = [req |-> remaining, ok |-> TRUE,
                        translations |-> result]
       /\ answered' = answered \cup Ids(result)
       /\ invocations' = invocations + 1
       /\ returned' =
            [r \in DOMAIN returned |->
               returned[r] \cup
               {result[j].text : j \in {k \in 1 .. Len(result) :
                    /\ result[k].id + 1 \in 1 .. Len(idx_chunk)
                    /\ idx_chunk[result[k].id + 1] = r}}]
       /\ ret_keys' = ret_keys \cup
            {<<record_type, remaining[i].text>> :
               i \in {k \in 1 .. Len(remaining) :
                        remaining[k].id \in Ids(result)}}
  /\ retry' = retry + 1
  /\ UNCHANGED <<input_items, outside_run, table_vars, scan_vars, call_vars>>

\* Mutant: a raising call is taken as an answer for the first item.
InvokeRaisePartial ==
  /\ call_pc = "retry" /\ retry <= MAX_RETRY /\ remaining # <<>>
  /\ last_call' = [req |-> remaining, ok |-> FALSE, translations |-> <<>>]
  /\ invocations' = invocations + 1
  /\ answered' = answered
  /\ remaining' = Tail(remaining)
  /\ retry' = retry + 1
  /\ UNCHANGED <<input_items, final_results, outside_run, table_vars,
                 scan_vars, call_vars, hist_vars>>

\* pipeline.invoke raises: print and continue (62-67).
InvokeRaise ==
  /\ call_pc = "retry" /\ LoopRuns
  /\ last_call' = [req |-> remaining, ok |-> FALSE, translations |-> <<>>]
  /\ invocations' = invocations + 1
  /\ answered' = answered
  /\ retry' = retry + 1
  /\ UNCHANGED <<input_items, remaining, final_results, outside_run,
                 table_vars, scan_vars, call_vars, hist_vars>>

\* ----------------------- call_llm_api_batch after translate_with_retry
\* original_id_text[id] raises KeyError for an id that was not submitted.
KeyError == \E k \in ODKeys(final_results) : k \notin Ids(uncached_items)

\* return final_results, remaining (86), then the store loop (153-156)
\* hits an id that original_id_text does not hold: the KeyError leaves
\* call_llm_api_batch, _process_one_batch and translate_csv_llm; the table
\* is not saved.
CallRaises ==
  /\ call_pc = "retry" /\ ~LoopRuns
  /\ KeyError
  /\ call_pc' = "raised"
  /\ UNCHANGED <<idx_chunk, safe_text_list, translated_map, uncached_items,
                 token_batches, translated_chunk, outside_run, table_vars,
                 scan_vars, retry_vars, hist_vars>>

\* Mutant: the failure marker of an unresolved item is cached as well.
TokenBatchDoneCachesFailed ==
  /\ call_pc = "retry" /\ ~LoopRuns
  /\ ~KeyError
  /\ LET stored == StoreResults(final_results, 1, translated_map, cache,
                     [record_type |-> record_type,
                      original |-> OriginalIdText(uncached_items)])
         tmap == StoreFailed(remaining, stored.tmap)
         out == Restore(safe_text_list, tmap)
     IN  /\ translated_map' = tmap
         /\ cache' = [k \in {<<record_type, remaining[i].text>> :
                                i \in 1 .. Len(remaining)} |->
                         Marker(k[2])] @@ stored.cache
         /\ token_batches' = Tail(token_batches)
         /\ IF Len(token_batches) > 1
            THEN /\ input_items' = token_batches[2]
                 /\ remaining' = token_batches[2]
                 /\ final_results' = <<>>
                 /\ retry' = 0
                 /\ last_call' = NoCall
                 /\ invocations' = 0
                 /\ answered' = {}
                 /\ UNCHANGED <<call_pc, translated_chunk, Translated, pending>>
            ELSE /\ translated_chunk' = out
                 /\ Translated' = WriteBack(Translated, idx_chunk, out)
                 /\ pending' = Tail(pending)
                 /\ call_pc' = "idle"
                 /\ UNCHANGED retry_vars
  /\ UNCHANGED <<df, idx_chunk, safe_text_list, uncached_items, pc, types_left,
                 record_type, items, pos, current_batch, current_tokens,
                 outside_run, hist_vars>>

\* return final_results, remaining (86); results and failures are stored
\* (153-161); then the next token batch starts, or the texts are restored
\* in order (164-173) and written to the rows (196-197).
TokenBatchDone ==
  /\ call_pc = "retry" /\ ~LoopRuns
  /\ ~KeyError
  /\ LET stored == StoreResults(final_results, 1, translated_map, cache,
                     [record_type |-> record_type,
                      original |-> OriginalIdText(uncached_items)])
         tmap == StoreFailed(remaining, stored.tmap)
         out == Restore(safe_text_list, tmap)
     IN  /\ translated_map' = tmap
         /\ cache' = stored.cache
         /\ token_batches' = Tail(token_batches)
         /\ IF Len(token_batches) > 1
            THEN /\ input_items' = token_batches[2]
                 /\ remaining' = token_batches[2]
                 /\ final_results' = <<>>
                 /\ retry' = 0
                 /\ last_call' = NoCall
                 /\ invocations' = 0
                 /\ answered' = {}
                 /\ UNCHANGED <<call_pc, translated_chunk, Translated, pending>>
            ELSE /\ translated_chunk' = out
                 /\ Translated' = WriteBack(Translated, idx_chunk, out)
                 /\ pending' = Tail(pending)
                 /\ call_pc' = "idle"
                 /\ UNCHANGED retry_vars
  /\ UNCHANGED <<df, idx_chunk, safe_text_list, uncached_items, pc, types_left,
                 record_type, items, pos, current_batch, current_tokens,
                 outside_run, hist_vars>>

Next ==
  \/ NextGroup \/ ScanItem \/ ScanEnd \/ SaveCsv
  \/ BatchAllEmpty \/ BatchAllCached \/ BatchStartCall
  \/ InvokeOk \/ InvokeRaise \/ CallRaises \/ TokenBatchDone

Spec == Init /\ [][Next]_vars

\* The same run over the smaller tables, with the scheduling the program
\* has: one thread that keeps running, each remote call answers or raises.
InitFair ==
  /\ input = <<>> /\ budget = 0 /\ gen = GenIdle /\ inl = InlIdle
  /\ pc = "group" /\ prev_run = "none" /\ PromptIdle /\ ResolveIdle
  /\ MainIdle
  /\ \E table \in SeqsUpTo([type : Types, string : RowTexts], MaxFairRows) :
       RunStart(table)

FairSpec == InitFair /\ [][Next]_vars /\ WF_vars(Next)

\* -------------------------------------- translate_csv_llm called again
\* Every row with a non-empty text holds a translation.
AllTranslated ==
  \A r \in 1 .. Len(df) :
    ~IsBlank(normalize_text(df[r].string)) => Translated[r][1] = "tr"

\* Mutant: the second call goes on with the cache of the first.
RerunKeepsCache ==
  /\ pc = "done" /\ prev_run = "none"
  /\ prev_run' = IF AllTranslated THEN "ok" ELSE "failed"
  /\ pc' = "group"
  /\ Translated' = [i \in 1 .. Len(df) |-> NONE]
  /\ cache' = cache
  /\ types_left' = GroupTypes(df)
  /\ record_type' = "A"
  /\ items' = <<>> /\ pos' = 1
  /\ current_batch' = <<>> /\ current_tokens' = 0
  /\ idx_chunk' = <<>> /\ safe_text_list' = <<>>
  /\ translated_map' = EmptyFn /\ translated_chunk' = <<>>
  /\ NoRetryLocals
  /\ returned' = [i \in 1 .. Len(df) |-> {}]
  /\ ret_keys' = {}
  /\ UNCHANGED <<df, call_pc, pending, batcher_vars, aside_vars>>

\* translate_csv_llm is called a second time on the table it was given the
\* first time: it reads the CSV, resets the Translated column and makes a
\* new, empty cache (205-212).
Rerun ==
  /\ pc = "done" /\ prev_run = "none"
  /\ prev_run' = IF AllTranslated THEN "ok" ELSE "failed"
  /\ pc' = "group"
  /\ Translated' = [i \in 1 .. Len(df) |-> NONE]
  /\ cache' = EmptyFn
  /\ types_left' = GroupTypes(df)
  /\ record_type' = "A"
  /\ items' = <<>> /\ pos' = 1
  /\ current_batch' = <<>> /\ current_tokens' = 0
  /\ idx_chunk' = <<>> /\ safe_text_list' = <<>>
  /\ translated_map' = EmptyFn /\ translated_chunk' = <<>>
  /\ NoRetryLocals
  /\ returned' = [i \in 1 .. Len(df) |-> {}]
  /\ ret_keys' = {}
  /\ UNCHANGED <<df, call_pc, pending, batcher_vars, aside_vars>>

\* The smaller tables, whitespace-only cells included, translated twice.
InitRerun ==
  /\ input = <<>> /\ budget = 0 /\ gen = GenIdle /\ inl = InlIdle
  /\ pc = "group" /\ prev_run = "none" /\ PromptIdle /\ ResolveIdle
  /\ MainIdle
  /\ \E table \in SeqsUpTo([type : Types, string : WideRowTexts],
                           MaxFairRows) :
       RunStart(table)

NextRerun == Next \/ Rerun

SpecRerun == InitRerun /\ [][NextRerun]_vars

\* ------------------------------------------------------ prompt resolution
outside_prompt == <<batcher_vars, run_vars, prev_run, resolve_vars, main_vars>>

\* config/setting.ini holds PROMPT_TEMPLATE and any of the other options;
\* translate_csv_llm is about to be imported.
InitPrompt ==
  /\ input = <<>> /\ budget = 0 /\ gen = GenIdle /\ inl = InlIdle
  /\ pc = "off" /\ prev_run = "none" /\ ResolveIdle /\ MainIdle
  /\ RunStart(<<>>)
  /\ \E opts \in SUBSET PerTypeOptions : llm_options = {OPT_TEMPLATE} \cup opts
  /\ PROMPT_MAP = EmptyFn /\ asked_type = <<>> /\ prompt = NONE
  /\ prompt_pc = "import"

\* CONFIG = get_Config_Parser(); PROMPT_MAP = build_prompt_map(CONFIG)
\* (translate_csv_llm.py 14, 50)
ImportModule ==
  /\ prompt_pc = "import"
  /\ PROMPT_MAP' = build_prompt_map(get_Config_Parser(llm_options))
  /\ prompt_pc' = "ready"
  /\ UNCHANGED <<llm_options, asked_type, prompt, outside_prompt>>

\* call_llm_api_batch builds the prompt for its record_type (131-134).
ResolvePrompt ==
  /\ prompt_pc \in {"ready", "resolved"}
  /\ \E rtype \in RecordTypes :
       /\ asked_type' = rtype
       /\ prompt' = ResolvePromptOf(PROMPT_MAP, rtype)
  /\ prompt_pc' = "resolved"
  /\ UNCHANGED <<llm_options, PROMPT_MAP, outside_prompt>>

NextPrompt == ImportModule \/ ResolvePrompt

SpecPrompt == InitPrompt /\ [][NextPrompt]_vars

\* ------------------------------------------ find_mod_plugins_from_profile
outside_resolve == <<batcher_vars, run_vars, prev_run, prompt_vars, main_vars>>

\* The rest of the state while the resolver runs on its own.
ResolveAlone ==
  /\ input = <<>> /\ budget = 0 /\ gen = GenIdle /\ inl = InlIdle
  /\ pc = "off" /\ prev_run = "none" /\ PromptIdle /\ MainIdle
  /\ RunStart(<<>>)

\* modlist.txt exists; mods/ holds the directories m1 and m2, each with any
\* files, the plain file "afile", and nothing named "gone".
InitResolve ==
  /\ ResolveAlone
  /\ modlist \in SeqsUpTo(ModlistLines, MaxMods)
  /\ \E d1, d2 \in SUBSET Files :
       mods_fs = [m \in ModNames |->
                    CASE m = "m1" -> [kind |-> "dir", files |-> d1]
                      [] m = "m2" -> [kind |-> "dir", files |-> d2]
                      [] m = "gone" -> [kind |-> "missing", files |-> {}]
                      [] OTHER -> [kind |-> "file", files |-> {}]]
  /\ mod_dirs = <<>> /\ mod_pos = 1
  /\ plugin_map = <<>> /\ plugin_list = <<>>
  /\ resolve_pc = "read"

\* modlist.txt is read: the enabled mods, in order (58-73).
ReadModlist ==
  /\ resolve_pc = "read"
  /\ mod_dirs' = EnabledMods(modlist)
  /\ mod_pos' = 1
  /\ plugin_map' = <<>>
  /\ resolve_pc' = "loop"
  /\ UNCHANGED <<modlist, mods_fs, plugin_list, outside_resolve>>

\* An entry that does not exist or is not a directory: continue (77-80).
ResolveSkip ==
  /\ resolve_pc = "loop" /\ mod_pos <= Len(mod_dirs)
  /\ ~IsDir(mods_fs, mod_dirs[mod_pos])
  /\ mod_pos' = mod_pos + 1
  /\ UNCHANGED <<modlist, mods_fs, mod_dirs, plugin_map, plugin_list,
                 resolve_pc, outside_resolve>>

\* A mod directory: its plugin files enter the map, first come first
\* served (83-86).
ResolveScan ==
  /\ resolve_pc = "loop" /\ mod_pos <= Len(mod_dirs)
  /\ IsDir(mods_fs, mod_dirs[mod_pos])
  /\ \E files \in Orders(mods_fs[mod_dirs[mod_pos]].files) :
       plugin_map' = ScanMod(plugin_map, mod_dirs[mod_pos], files)
  /\ mod_pos' = mod_pos + 1
  /\ UNCHANGED <<modlist, mods_fs, mod_dirs, plugin_list, resolve_pc,
                 outside_resolve>>

\* return list(plugin_map.values()) (88-90)
ResolveReturn ==
  /\ resolve_pc = "loop" /\ mod_pos > Len(mod_dirs)
  /\ plugin_list' = [i \in 1 .. Len(plugin_map) |-> plugin_map[i][2]]
  /\ resolve_pc' = "returned"
  /\ UNCHANGED <<modlist, mods_fs, mod_dirs, mod_pos, plugin_map,
                 outside_resolve>>

NextResolve == ReadModlist \/ ResolveSkip \/ ResolveScan \/ ResolveReturn

SpecResolve == InitResolve /\ [][NextResolve]_vars

\* ------------------------------------------------------------------ main
outside_main == <<batcher_vars, run_vars, prev_run, prompt_vars, modlist,
                  mods_fs, mod_dirs, mod_pos, plugin_map, resolve_pc>>

PluginNames == {name \in Files : IsPlugin(name)}

\* What find_mod_plugins_from_profile can return (64): paths of plugin
\* files in mod directories, no two with the same file name.
PluginLists ==
  {list \in SeqsUpTo({PathOf(mod, name) : mod \in {"m1", "m2"},
                                          name \in PluginNames},
                     Cardinality(PluginNames)) :
     \A i, j \in 1 .. Len(list) : list[i].name = list[j].name => i = j}

\* plugin_timestamps.txt as an earlier run or an editor may have left it:
\* missing, or a line for any of the plugin names, with or without a line
\* of a plugin that is gone and a line that does not parse.
OldName == <<"o", ".", "e", "s", "p">>
StaleLines == <<Line(OldName, FormatTs(1)), Line(F_a, <<"text", 0>>)>>

SnapshotFiles ==
  {[exists |-> FALSE, lines |-> <<>>]}
    \cup {[exists |-> TRUE,
           lines |-> head \o save_current_timestamps(list, mt).lines] :
            head \in {<<>>, StaleLines},
            list \in {<<PathOf("m1", F_a), PathOf("m1", F_xa)>>},
            mt \in [PluginNames -> Mtimes]}

\* EXCLUDE_PLUGINS of setting.ini: empty, or one of the file names.
ExcludeSettings == {<<>>, F_a, F_xa}

\* main() has resolved the plugin list (53-64).
MainStart ==
  /\ input = <<>> /\ budget = 0 /\ gen = GenIdle /\ inl = InlIdle
  /\ pc = "off" /\ prev_run = "none" /\ PromptIdle
  /\ RunStart(<<>>)
  /\ modlist = <<>> /\ mods_fs = EmptyFn /\ mod_dirs = <<>> /\ mod_pos = 1
  /\ plugin_map = <<>> /\ resolve_pc = "off"
  /\ plugin_list \in PluginLists
  /\ mtime \in [{plugin_list[i].name : i \in 1 .. Len(plugin_list)} -> Mtimes]
  /\ main_pc = "load"
  /\ previous_timestamps = EmptyFn /\ updated_plugins = <<>> /\ det_pos = 1
  /\ filtered_plugins = <<>> /\ max_workers = 0 /\ submitted = 0
  /\ task = <<>> /\ collected = {}

InitMain ==
  /\ MainStart
  /\ ts_file \in SnapshotFiles
  /\ exclude_plugins \in ExcludeSettings
  /\ MAX_PARALLEL \in {1, 2}

\* previous_timestamps = load_previous_timestamps(TIMESTAMP_FILE) (67-68)
LoadSnapshot ==
  /\ main_pc = "load"
  /\ previous_timestamps' = load_previous_timestamps(ts_file)
  /\ updated_plugins' = <<>>
  /\ det_pos' = 1
  /\ main_pc' = "detect"
  /\ UNCHANGED <<env_vars, pool_vars, plugin_list, outside_main>>

DetectStep == main_pc = "detect" /\ det_pos <= Len(plugin_list)

\* plugin.stat() raises: except Exception: continue (70-76)
DetectStatFails ==
  /\ DetectStep
  /\ mtime[plugin_list[det_pos].name] = 0
  /\ det_pos' = det_pos + 1
  /\ UNCHANGED <<env_vars, main_pc, previous_timestamps, updated_plugins,
                 pool_vars, plugin_list, outside_main>>

\* Mutant: only a newer file counts as changed.
IsUpdatedOnlyNewer(previous, name, current_mtime) ==
  IF name \notin DOMAIN previous THEN TRUE
  ELSE current_mtime > previous[name]

\* previous_mtime is None or current_mtime != previous_mtime (72-73)
IsUpdated(previous, name, current_mtime) ==
  IF name \notin DOMAIN previous THEN TRUE
  ELSE current_mtime # previous[name]

DetectChanged ==
  /\ DetectStep
  /\ mtime[plugin_list[det_pos].name] # 0
  /\ IsUpdated(previous_timestamps, plugin_list[det_pos].name,
               mtime[plugin_list[det_pos].name])
  /\ updated_plugins' = Append(updated_plugins, plugin_list[det_pos])
  /\ det_pos' = det_pos + 1
  /\ UNCHANGED <<env_vars, main_pc, previous_timestamps, pool_vars,
                 plugin_list, outside_main>>

DetectUnchanged ==
  /\ DetectStep
  /\ mtime[plugin_list[det_pos].name] # 0
  /\ ~IsUpdated(previous_timestamps, plugin_list[det_pos].name,
                mtime[plugin_list[det_pos].name])
  /\ det_pos' = det_pos + 1
  /\ UNCHANGED <<env_vars, main_pc, previous_timestamps, updated_plugins,
                 pool_vars, plugin_list, outside_main>>

DetectDone == main_pc = "detect" /\ det_pos > Len(plugin_list)

\* if not filtered_plugins: return (78-86)
FilterEarlyReturn ==
  /\ DetectDone
  /\ FilterExcluded(updated_plugins, exclude_plugins) = <<>>
  /\ main_pc' = "returned_early"
  /\ UNCHANGED <<env_vars, detect_vars, pool_vars, plugin_list, outside_main>>

NewTask == [st |-> "new", results |-> <<>>, outcome |-> "none", exc |-> FALSE]

\* The executor is made with min(MAX_PARALLEL, len) workers (78-90).
FilterStartPool ==
  /\ DetectDone
  /\ LET filtered == FilterExcluded(updated_plugins, exclude_plugins)
     IN  /\ filtered # <<>>
         /\ filtered_plugins' = filtered
         /\ max_workers' = IF MAX_PARALLEL < Len(filtered) THEN MAX_PARALLEL
                           ELSE Len(filtered)
         /\ task' = [i \in 1 .. Len(filtered) |-> NewTask]
  /\ submitted' = 0
  /\ collected' = {}
  /\ main_pc' = "submit"
  /\ UNCHANGED <<env_vars, detect_vars, plugin_list, outside_main>>

\* executor.submit(process_plugin, plugin) (91-93)
Submit ==
  /\ main_pc = "submit"
  /\ submitted' = submitted + 1
  /\ task' = [task EXCEPT ![submitted + 1].st = "queued"]
  /\ main_pc' = IF submitted + 1 = Len(filtered_plugins) THEN "collect"
                ELSE "submit"
  /\ UNCHANGED <<env_vars, detect_vars, filtered_plugins, max_workers,
                 collected, plugin_list, outside_main>>

Running == {i \in DOMAIN task : task[i].st \in {"extract", "translate",
                                                "convert"}}

StageNo(st) == CHOOSE k \in 1 .. 3 : Stages[k] = st

\* A free worker takes the oldest queued work item.
TaskStart ==
  /\ main_pc \in {"submit", "collect"}
  /\ Cardinality(Running) < max_workers
  /\ \E i \in DOMAIN task :
       /\ task[i].st = "queued"
       /\ \A j \in 1 .. i - 1 : task[j].st # "queued"
       /\ task' = [task EXCEPT ![i].st = "extract"]
  /\ UNCHANGED <<env_vars, main_pc, detect_vars, filtered_plugins,
                 max_workers, submitted, collected, plugin_list, outside_main>>

\* The stage of a running pipeline returns True (27-45).
StageOk ==
  /\ \E i \in Running :
       LET k == StageNo(task[i].st)
           results == Append(task[i].results, "ok")
       IN  task' = [task EXCEPT
                      ![i].results = results,
                      ![i].st = IF k = 3 THEN "finished" ELSE Stages[k + 1],
                      ![i].outcome = IF k = 3 THEN "ok" ELSE "none"]
  /\ UNCHANGED <<env_vars, main_pc, detect_vars, filtered_plugins,
                 max_workers, submitted, collected, plugin_list, outside_main>>

\* The stage returns False: print and return (28-30, 35-37, 41-43).
StageFalse ==
  /\ \E i \in Running :
       LET k == StageNo(task[i].st)
       IN  task' = [task EXCEPT
                      ![i].results = Append(task[i].results, "false"),
                      ![i].st = "finished",
                      ![i].outcome = <<"extract_failed", "translate_failed",
                                       "convert_failed">>[k]]
  /\ UNCHANGED <<env_vars, main_pc, detect_vars, filtered_plugins,
                 max_workers, submitted, collected, plugin_list, outside_main>>

\* The stage raises (47-49).
StageRaise ==
  /\ \E i \in Running : task' = [task EXCEPT ![i] = TaskRaised(task[i])]
  /\ UNCHANGED <<env_vars, main_pc, detect_vars, filtered_plugins,
                 max_workers, submitted, collected, plugin_list, outside_main>>

\* for future in as_completed(futures): future.result() (96-97); an
\* exception held by the future is raised in main.
Collect ==
  /\ main_pc = "collect"
  /\ \E i \in DOMAIN task \ collected :
       /\ task[i].st = "finished"
       /\ collected' = collected \cup {i}
       /\ main_pc' = IF task[i].exc THEN "raised" ELSE "collect"
  /\ UNCHANGED <<env_vars, detect_vars, filtered_plugins, max_workers,
                 submitted, task, plugin_list, outside_main>>

\* as_completed is exhausted and the with block is left: shutdown waits
\* for every work item (90-97).
PoolExit ==
  /\ main_pc = "collect"
  /\ collected = DOMAIN task
  /\ \A i \in DOMAIN task : task[i].st = "finished"
  /\ main_pc' = "save"
  /\ UNCHANGED <<env_vars, detect_vars, pool_vars, plugin_list, outside_main>>

\* save_current_timestamps(TIMESTAMP_FILE, plugin_list) (99-100)
SaveSnapshot ==
  /\ main_pc = "save"
  /\ ts_file' = save_current_timestamps(plugin_list, mtime)
  /\ main_pc' = "returned"
  /\ UNCHANGED <<mtime, exclude_plugins, MAX_PARALLEL, detect_vars, pool_vars,
                 plugin_list, outside_main>>

NextMain ==
  \/ LoadSnapshot \/ DetectStatFails \/ DetectChanged \/ DetectUnchanged
  \/ FilterEarlyReturn \/ FilterStartPool
  \/ Submit \/ TaskStart \/ StageOk \/ StageFalse \/ StageRaise
  \/ Collect \/ PoolExit \/ SaveSnapshot

SpecMain == InitMain /\ [][NextMain]_vars

\* main() under a fair scheduler: the main thread and every worker thread
\* that can take a step eventually take one, and every stage of a
\* pipeline ends. The snapshot is missing or the one a run left when both
\* plugins had the time 1.
InitMainFair ==
  /\ MainStart
  /\ ts_file \in {[exists |-> FALSE, lines |-> <<>>],
                  save_current_timestamps(
                    <<PathOf("m1", F_a), PathOf("m1", F_xa)>>,
                    [name \in PluginNames |-> 1])}
  /\ exclude_plugins \in ExcludeSettings
  /\ MAX_PARALLEL \in {1, 2}

FairSpecMain == InitMainFair /\ [][NextMain]_vars /\ WF_vars(NextMain)

\* ------------------------------------------- main() from the resolver on
\* find_mod_plugins_from_profile has returned to main (64): its locals are
\* gone, the plugin files have their modification times, and the snapshot,
\* the exclusion and the worker cap are what the installation holds.
MainAfterResolve ==
  /\ resolve_pc = "returned" /\ main_pc = "off"
  /\ modlist' = <<>> /\ mods_fs' = EmptyFn /\ mod_dirs' = <<>>
  /\ mod_pos' = 1 /\ plugin_map' = <<>> /\ resolve_pc' = "off"
  /\ mtime' \in [{plugin_list[i].name : i \in 1 .. Len(plugin_list)}
                   -> Mtimes]
  /\ ts_file' \in {[exists |-> FALSE, lines |-> <<>>],
                   save_current_timestamps(
                     <<PathOf("m1", F_a), PathOf("m1", F_xa)>>,
                     [name \in PluginNames |-> 1])}
  /\ exclude_plugins' \in ExcludeSettings
  /\ MAX_PARALLEL' \in {1, 2}
  /\ main_pc' = "load"
  /\ UNCHANGED <<detect_vars, pool_vars, plugin_list, batcher_vars, run_vars,
                 prev_run, prompt_vars>>

\* The program is started again after a run that wrote the snapshot: the
\* same load order gives the same plugin list, the configuration and the
\* plugin files are as they were, the snapshot is the one just written.
\* The pool variables are not assigned before line 80 and still show what
\* the first run left.
MainAgain ==
  /\ main_pc = "returned" /\ prev_run = "none"
  /\ prev_run' = "saved"
  /\ main_pc' = "load"
  /\ previous_timestamps' = EmptyFn /\ updated_plugins' = <<>>
  /\ det_pos' = 1
  /\ UNCHANGED <<env_vars, pool_vars, plugin_list, batcher_vars, run_vars,
                 prompt_vars, modlist, mods_fs, mod_dirs, mod_pos, plugin_map,
                 resolve_pc>>

NextRuns == NextResolve \/ MainAfterResolve \/ NextMain \/ MainAgain

SpecRuns == InitResolve /\ [][NextRuns]_vars

\* ----------------------------------------------------------------- claims
Yielded == {gen.st.out[i] : i \in 1 .. Len(gen.st.out)}
Handed == {inl.out[i] : i \in 1 .. Len(inl.out)}

WithinBudget(batch, max_tokens) ==
  \/ BatchTokens(batch) <= max_tokens
  \/ Len(batch) = 1 /\ count_tokens(batch[1].text) > max_tokens

OversizedAlone(batch, max_tokens) ==
  \A i \in 1 .. Len(batch) :
    count_tokens(batch[i].text) > max_tokens => Len(batch) = 1

\* C1: every batch yielded by chunk_by_token_limit and every batch the
\* batching loop of translate_csv_llm hands to _process_one_batch costs at
\* most the budget, unless it is a single item that alone costs more; an
\* item that costs more than the budget is alone in its batch.
C1_BatchesWithinBudget ==
  \A batch \in Yielded \cup Handed :
    WithinBudget(batch, budget) /\ OversizedAlone(batch, budget)

\* A run of both batchers that closed a batch of two items on an overflow
\* and put an oversized item in a batch of its own.
C1_Witness ==
  /\ gen.done /\ inl.done
  /\ \E b \in Yielded : Len(b) = 1 /\ count_tokens(b[1].text) > budget
  /\ \E b \in Handed : Len(b) = 1 /\ count_tokens(b[1].text) > budget
  /\ \E b \in Yielded : Len(b) >= 2 /\ BatchTokens(b) = budget
  /\ \E b \in Handed : Len(b) >= 2 /\ BatchTokens(b) = budget

\* C2: the batches chunk_by_token_limit yields, concatenated in yield order
\* and followed by the pending batch, are the items consumed so far, in
\* order; at the end they are the whole input; no yielded batch is empty.
C2_ChunksPartitionInput ==
  /\ Concat(gen.st.out) \o (IF gen.done THEN <<>> ELSE gen.st.batch)
       = SubSeq(build_id_map(input), 1, gen.pos - 1)
  /\ gen.done => Concat(gen.st.out) = build_id_map(input)
  /\ \A batch \in Yielded : batch # <<>>

\* The generator has finished an input that it split into several batches,
\* one of them closed by an oversized item.
C2_Witness ==
  /\ gen.done
  /\ Len(input) >= 3
  /\ Len(gen.st.out) >= 2
  /\ \E i \in 2 .. Len(input) : count_tokens(input[i]) > budget
  /\ count_tokens(input[1]) <= budget

\* ------------------------------------------- translate_with_retry claims
\* A step that makes a remote call.
InvokeStep == invocations' = invocations + 1

\* The items of the batch carried by no successful answer with an id in ids.
NotAnswered(ids) ==
  LET Open(item) == item.id \notin ids
  IN  SelectSeq(input_items, Open)

\* C3: after a successful answer every returned id is in the result map and
\* out of the remaining list; every attempt submits exactly the items of
\* the batch that no earlier successful answer carried; a 2-item batch
\* answered with its first id only and then with its second id only ends
\* with both ids translated and nothing unresolved.
C3_RetryResubmitsOnlyMissing ==
  [][ /\ InvokeStep =>
           /\ last_call'.req = NotAnswered(answered)
           /\ remaining' = NotAnswered(answered')
           /\ last_call'.ok =>
                \A id \in Ids(last_call'.translations) :
                  id \in ODKeys(final_results') /\ id \notin Ids(remaining')
      /\ ( /\ InvokeStep
           /\ Len(input_items) = 2 /\ invocations = 1
           /\ last_call.ok /\ last_call'.ok
           /\ Ids(last_call.translations) = {input_items[1].id}
           /\ Ids(last_call'.translations) = {input_items[2].id} )
         => /\ remaining' = <<>>
            /\ final_results' =
                 << <<input_items[1].id, Tr(input_items[1].text)>>,
                    <<input_items[2].id, Tr(input_items[2].text)>> >> ]_vars

\* The scenario: two items, the first answered alone, the second alone on
\* the retry, which submitted one item.
C3_Witness ==
  /\ Len(input_items) = 2 /\ invocations = 2
  /\ last_call.ok
  /\ Ids(last_call.translations) = {input_items[2].id}
  /\ Len(last_call.req) = 1
  /\ ODKeys(final_results) = Ids(input_items)
  /\ final_results[1][1] = input_items[1].id

\* C4: after every attempt of translate_with_retry the number of entries of
\* the result map plus the number of remaining items is the number of
\* items submitted.
C4_ReconciliationCount ==
  Len(final_results) + Len(remaining) = Len(input_items)

\* C5: an item that translate_with_retry leaves unresolved never makes
\* call_llm_api_batch abort, and when the call has returned its output has
\* one entry per input text, the failure marker of each unresolved item at
\* the item's own position.
C5_UnresolvedGetMarker ==
  /\ ~(call_pc = "raised" /\ remaining # <<>>)
  /\ (call_pc = "idle" /\ input_items # <<>>) =>
       /\ Len(translated_chunk) = Len(safe_text_list)
       /\ \A i \in 1 .. Len(remaining) :
            translated_chunk[remaining[i].id + 1] = Marker(remaining[i].text)

C6_Bounded ==
  /\ invocations <= MAX_RETRY + 1
  /\ retry = invocations
  /\ invocations > 0 => last_call.req # <<>>

\* C6: translate_with_retry calls the remote at most MAX_RETRY + 1 times, a
\* raising call uses up one attempt, no call is made with an empty
\* remaining list, and a started translate_with_retry returns.
C6_BoundedAttemptsAndReturn ==
  /\ []C6_Bounded
  /\ (call_pc = "retry") ~> (call_pc # "retry")

\* Every attempt was used, the last one raised, and an item is still
\* unresolved at the return.
C6_Witness ==
  /\ call_pc = "idle"
  /\ invocations = MAX_RETRY + 1
  /\ ~last_call.ok
  /\ remaining # <<>>

\* C7: an attempt whose remote call raises changes neither the result map
\* nor the remaining list, and the attempt after it submits the same list.
C7_RaiseDiscardsAttempt ==
  [][ /\ (InvokeStep /\ ~last_call'.ok) =>
           (final_results' = final_results /\ remaining' = remaining)
      /\ (InvokeStep /\ invocations > 0 /\ ~last_call.ok) =>
           last_call'.req = last_call.req ]_vars

\* A raise after a partial answer, with an attempt left for the part that
\* is still missing.
C7_Witness ==
  /\ call_pc = "retry"
  /\ invocations = 2 /\ ~last_call.ok
  /\ final_results # <<>>
  /\ remaining # <<>>
  /\ Len(remaining) < Len(input_items)
  /\ LoopRuns

\* ------------------------------------------------------- pipeline claims
SameSource(r, q) ==
  /\ df[r].type = df[q].type
  /\ normalize_text(df[r].string) = normalize_text(df[q].string)

\* C8: the Translated value of a row comes from the row's own text: "" for
\* an empty text, else the failure marker of the text, or a text the remote
\* answered under the request id of the row or (through the cache) of a row
\* of the same type and text; after the run every row has a value.
C8_RowGetsOwnTranslation ==
  /\ \A r \in 1 .. Len(df) :
       Translated[r] # NONE =>
         IF IsBlank(normalize_text(df[r].string))
         THEN Translated[r] = EMPTY
         ELSE Translated[r] \in
                {Marker(df[r].string)} \cup
                UNION {returned[q] : q \in {x \in 1 .. Len(df) : SameSource(r, x)}}
  /\ pc = "done" => \A r \in 1 .. Len(df) : Translated[r] # NONE

\* A finished run over two types with a translated row, a failed row and
\* an empty row, the translated and failed texts being different.
C8_Witness ==
  /\ pc = "done"
  /\ \E r1, r2, r3 \in 1 .. Len(df) :
       /\ df[r1].type # df[r2].type
       /\ Translated[r1] = Tr(df[r1].string)
       /\ Translated[r2] = Marker(df[r2].string)
       /\ df[r1].string # df[r2].string
       /\ Translated[r3] = EMPTY

BatchReturns == Len(pending') = Len(pending) - 1

HitAtLookup(i) ==
  /\ ~IsBlank(safe_text_list'[i])
  /\ CacheGet(cache, record_type, safe_text_list'[i]) # NONE

\* C9: no remote request of a call carries an item whose (type, text) the
\* cache held when the call looked it up; the output of the call has the
\* cached translation at the position of such an item; a call whose
\* non-empty items are all cache hits makes no remote call.
C9_CacheHitsNotSubmitted ==
  [][ /\ InvokeStep =>
           \A i \in 1 .. Len(last_call'.req) :
             CacheGet(cache, record_type, last_call'.req[i].text) = NONE
      /\ BatchReturns =>
           /\ \A i \in 1 .. Len(safe_text_list') :
                HitAtLookup(i) =>
                  translated_chunk'[i] =
                    CacheGet(cache, record_type, safe_text_list'[i])
           /\ (\A i \in 1 .. Len(safe_text_list') :
                 IsBlank(safe_text_list'[i]) \/ HitAtLookup(i))
                => invocations' = 0 ]_vars

\* A call that returned after remote calls for one item while another item
\* of the same call came from the cache.
C9_Witness ==
  /\ call_pc = "idle"
  /\ invocations > 0
  /\ \E i \in 1 .. Len(safe_text_list) :
       /\ ~IsBlank(safe_text_list[i])
       /\ (i - 1) \notin Ids(uncached_items)
       /\ translated_chunk[i] = Tr(safe_text_list[i])
  /\ \E i \in 1 .. Len(safe_text_list) : (i - 1) \in Ids(uncached_items)

\* C10 as claimed: once the remote has returned a translation for a text of
\* a type, no later remote request of the run carries that text for that
\* type.
C10_NeverResubmitted ==
  [][ InvokeStep =>
        \A i \in 1 .. Len(remaining) :
          <<record_type, remaining[i].text>> \notin ret_keys ]_vars

\* The (type, text) keys the remote has translated in this call.
AnsweredKeysOfCall ==
  {<<record_type, input_items[i].text>> :
     i \in {k \in 1 .. Len(input_items) :
              input_items[k].id \in answered}}

\* C10 amended: a text the remote has translated for a type is carried by
\* no remote request of a later batch of the run; only the call in which it
\* was translated may submit it again, for another item with the same text.
C10_NotResubmittedByLaterBatch ==
  [][ InvokeStep =>
        \A i \in 1 .. Len(remaining) :
          <<record_type, remaining[i].text>> \in ret_keys =>
            <<record_type, remaining[i].text>> \in AnsweredKeysOfCall ]_vars

\* A later batch is in its remote calls while one of its texts, translated
\* by an earlier batch, stays out of every request.
C10_Witness ==
  /\ call_pc = "retry"
  /\ invocations > 0
  /\ \E i \in 1 .. Len(safe_text_list) :
       /\ <<record_type, safe_text_list[i]>> \in ret_keys
       /\ (i - 1) \notin Ids(input_items)
       /\ <<record_type, safe_text_list[i]>> \notin AnsweredKeysOfCall

\* ----------------------------------------------------------- rerun claims
\* C11 as claimed: after a run in which every item was translated, the
\* second run of translate_csv_llm on the same table makes no remote call.
C11_RerunMakesNoRemoteCall ==
  [][ prev_run = "ok" => ~InvokeStep ]_vars

\* In the second run the row was answered by the remote again, under its
\* own id or under the id of a row with the same type and text.
AnsweredAgain(r) ==
  \E q \in 1 .. Len(df) : SameSource(r, q) /\ returned[q] # {}

\* C11 amended: translate_csv_llm starts every run with an empty cache, so
\* the second run on the same table makes no remote call only for a table
\* without a non-empty text; each row with a non-empty text is answered by
\* the remote again in the second run or ends with the failure marker.
C11_RerunStartsWithEmptyCache ==
  /\ [][ (prev_run = "none" /\ prev_run' # "none") => cache' = EmptyFn ]_vars
  /\ [](( prev_run = "ok" /\ pc = "done" ) =>
          \A r \in 1 .. Len(df) :
            ~IsBlank(normalize_text(df[r].string)) =>
              \/ Translated[r] = Marker(df[r].string)
              \/ AnsweredAgain(r))

\* The second run after a fully translated first run has finished, having
\* had a row translated by the remote again.
C11_Witness ==
  /\ prev_run = "ok" /\ pc = "done"
  /\ \E r \in 1 .. Len(df) :
       Translated[r] = Tr(df[r].string) /\ returned[r] # {}

\* The texts of items are all non-empty after stripping.
NoBlankItem(its) == \A i \in 1 .. Len(its) : its[i].text \notin {0, 1}

\* The row's text is missing, empty or whitespace-only.
BlankRow(r) == df[r].string \in {NaN, 0, 1}

\* C12: a row whose text is missing, empty or whitespace-only gets "" as
\* its translation; such a text is never among the cache hits or the
\* uncached items of a call, never a key of the cache and never in a
\* remote request; a call whose texts are all empty has returned as many
\* "" as it was given texts, without a remote call.
C12_EmptyTextsBypassTranslation ==
  /\ \A r \in 1 .. Len(df) :
       BlankRow(r) =>
         /\ Translated[r] \in {NONE, EMPTY}
         /\ pc = "done" => Translated[r] = EMPTY
  /\ \A i \in 1 .. Len(safe_text_list) :
       safe_text_list[i] \in {0, 1} =>
         (i - 1) \notin DOMAIN translated_map \cup Ids(uncached_items)
  /\ \A key \in DOMAIN cache : key[2] \notin {0, 1}
  /\ NoBlankItem(remaining) /\ NoBlankItem(last_call.req)
  /\ ( /\ call_pc = "idle"
       /\ safe_text_list # <<>>
       /\ \A i \in 1 .. Len(safe_text_list) : safe_text_list[i] \in {0, 1} )
     => /\ translated_chunk = [i \in 1 .. Len(safe_text_list) |-> EMPTY]
        /\ invocations = 0

\* A finished run: the remote translated the row of the first group, and
\* the call for the second group, a whitespace-only text, made no remote
\* call and returned "".
C12_Witness ==
  /\ pc = "done"
  /\ Len(df) = 2
  /\ \E r, q \in 1 .. Len(df) :
       /\ df[r].string = 1 /\ Translated[r] = EMPTY
       /\ Translated[q] = Tr(df[q].string)
  /\ safe_text_list = <<1>>
  /\ translated_chunk = <<EMPTY>>
  /\ invocations = 0
  /\ ret_keys # {}

\* ---------------------------------------------------------- prompt claims
\* C13: the prompt resolved for a record type is the template the map holds
\* for exactly that type, else the template of "others", and the
\* resolution never raises, whatever per-type prompts are configured.
C13_PromptResolutionNeverFails ==
  prompt_pc = "resolved" =>
    /\ prompt # KeyErrorOthers
    /\ asked_type \in DOMAIN PROMPT_MAP => prompt = PROMPT_MAP[asked_type]
    /\ asked_type \notin DOMAIN PROMPT_MAP =>
         others \in DOMAIN PROMPT_MAP /\ prompt = PROMPT_MAP[others]

\* The key the option is meant to give: the name written after the 7
\* characters of the prefix, in its own letter case, "_" replaced by " ".
KeyAsWritten(option) == replace_underscore(SubSeq(option, 8, Len(option)))

\* C20: once PROMPT_MAP is built, every option PROMPT_<NAME> of the
\* configuration other than PROMPT_TEMPLATE has an entry under its name in
\* the letter case it is written in (PROMPT_DIAL_FULL under "DIAL FULL"),
\* holding the template made from the option, and a call for a record type
\* of that name resolves that template.
C20_PromptKeyKeepsLetterCase ==
  prompt_pc \in {"ready", "resolved"} =>
    \A option \in llm_options :
      (startswith(lower(option), prompt_) /\ lower(option) # prompt_template)
        => /\ KeyAsWritten(option) \in DOMAIN PROMPT_MAP
           /\ PROMPT_MAP[KeyAsWritten(option)] =
                Template(ValueOf(OPT_TEMPLATE), ValueOf(option))
           /\ (prompt_pc = "resolved" /\ asked_type = KeyAsWritten(option))
                => prompt = Template(ValueOf(OPT_TEMPLATE), ValueOf(option))

\* -------------------------------------------------------- resolver claims
\* The mods listed before position i.
EarlierMods(i) == {mod_dirs[j] : j \in 1 .. i - 1}

\* The positions of the enabled list whose directory holds the file.
Holders(name) ==
  {i \in 1 .. Len(mod_dirs) :
     IsDir(mods_fs, mod_dirs[i]) /\ name \in mods_fs[mod_dirs[i]].files}

\* C14: find_mod_plugins_from_profile returns every plugin filename at most
\* once, with the path in the earliest listed mod directory that holds it;
\* it returns exactly the plugin files of the listed directories; entries
\* that do not exist or are not directories add nothing and the function
\* returns.
C14_FirstModWins ==
  /\ resolve_pc = "returned" =>
       /\ \A i, j \in 1 .. Len(plugin_list) :
            plugin_list[i].name = plugin_list[j].name => i = j
       /\ \A i \in 1 .. Len(plugin_list) :
            /\ Holders(plugin_list[i].name) # {}
            /\ IsPlugin(plugin_list[i].name)
            /\ \E h \in Holders(plugin_list[i].name) :
                 /\ plugin_list[i].mod = mod_dirs[h]
                 /\ \A k \in Holders(plugin_list[i].name) : h <= k
       /\ \A name \in Files :
            (IsPlugin(name) /\ Holders(name) # {}) =>
              \E i \in 1 .. Len(plugin_list) : plugin_list[i].name = name
  /\ resolve_pc = "loop" =>
       \A k \in 1 .. Len(plugin_map) :
         plugin_map[k][2].mod \in EarlierMods(mod_pos)
         /\ IsDir(mods_fs, plugin_map[k][2].mod)

\* The resolver has returned: a stale entry came first, then two
\* directories that both hold "a.esp"; the first of the two won.
C14_Witness ==
  /\ resolve_pc = "returned"
  /\ Len(mod_dirs) = 3
  /\ ~IsDir(mods_fs, mod_dirs[1])
  /\ mod_dirs[2] # mod_dirs[3]
  /\ Holders(F_a) = {2, 3}
  /\ \E i \in 1 .. Len(plugin_list) : plugin_list[i] = PathOf(mod_dirs[2], F_a)

\* ---------------------------------------------------------- C15
InChanged(plugin) ==
  \E i \in 1 .. Len(updated_plugins) : updated_plugins[i] = plugin

\* The lines of the snapshot that record a time for the file name.
RecordedAt(name) ==
  {i \in 1 .. Len(ts_file.lines) :
     ts_file.lines[i].name = name /\ IsFloatText(ts_file.lines[i].ts)}

LastRecorded(name) ==
  ParseTs(ts_file.lines[CHOOSE i \in RecordedAt(name) :
                          \A j \in RecordedAt(name) : j <= i].ts)

DetectionOver == main_pc \notin {"load", "detect", "returned"}

\* C15: once change detection is over, a resolved plugin is in the changed
\* set exactly when its stat succeeds and the snapshot either records no
\* time for its file name or records a time different from the current one;
\* with no snapshot file every plugin whose stat succeeds is changed.
C15_ChangedIffNewOrDifferentMtime ==
  DetectionOver =>
    \A k \in 1 .. Len(plugin_list) :
      LET plugin == plugin_list[k]
          current == mtime[plugin.name]
      IN  /\ InChanged(plugin) <=>
               /\ current # 0
               /\ \/ ~ts_file.exists
                  \/ RecordedAt(plugin.name) = {}
                  \/ current # LastRecorded(plugin.name)
          /\ ~ts_file.exists => (InChanged(plugin) <=> current # 0)

\* Detection is over for a list with a plugin whose stat fails, left out,
\* and a plugin older than the snapshot says, taken as changed.
C15_Witness ==
  /\ DetectionOver /\ ts_file.exists
  /\ \E k, l \in 1 .. Len(plugin_list) :
       /\ mtime[plugin_list[k].name] = 0 /\ ~InChanged(plugin_list[k])
       /\ RecordedAt(plugin_list[l].name) # {}
       /\ mtime[plugin_list[l].name] # 0
       /\ mtime[plugin_list[l].name] < LastRecorded(plugin_list[l].name)
       /\ InChanged(plugin_list[l])

\* ---------------------------------------------------------- C16
RunEnded == main_pc \in {"returned", "returned_early", "raised"}

LinesOf(name) ==
  {i \in 1 .. Len(ts_file.lines) : ts_file.lines[i].name = name}

ResolvedNames == {plugin_list[k].name : k \in 1 .. Len(plugin_list)}

\* C16: when a run of main that has resolved the plugin list ends, the
\* snapshot file exists and holds exactly one line, with the current
\* modification time, for every resolved plugin whose stat succeeds, and
\* no line for a file name that is not resolved, also when no plugin was
\* left to process.
C16_SnapshotRewrittenAtRunEnd ==
  RunEnded =>
    /\ ts_file.exists
    /\ \A name \in ResolvedNames :
         mtime[name] # 0 =>
           /\ Cardinality(LinesOf(name)) = 1
           /\ \A i \in LinesOf(name) :
                ts_file.lines[i].ts = FormatTs(mtime[name])
    /\ \A i \in 1 .. Len(ts_file.lines) :
         ts_file.lines[i].name \in ResolvedNames

\* ---------------------------------------------------------- C17
PoolLeft == main_pc \in {"save", "returned"}

\* C17: an exception raised by a stage of one plugin's pipeline stays in
\* that plugin's task: the driver never raises, every finished task has
\* the outcome its own stage results give it, whatever the other tasks
\* did, and when the pool is left every submitted task has run to its end.
C17_ExceptionStaysInItsTask ==
  /\ main_pc # "raised"
  /\ \A i \in DOMAIN task :
       /\ ~task[i].exc
       /\ task[i].st = "finished" =>
            task[i].outcome = process_plugin(task[i].results, 1)
  /\ PoolLeft =>
       /\ Len(task) = Len(filtered_plugins)
       /\ \A i \in DOMAIN task : task[i].st = "finished"

\* Two plugins were submitted, the first raised in a stage, the second
\* finished all three stages, and main has returned.
C17_Witness ==
  /\ main_pc = "returned"
  /\ Len(task) = 2
  /\ task[1].outcome = "exception_logged"
  /\ task[2].outcome = "ok"

\* ---------------------------------------------------------- C18
\* C18: in every run the driver reaches the snapshot write and returns
\* only after every submitted pipeline has finished, and under fair
\* scheduling with terminating pipelines every submitted plugin is
\* processed and every run reaches the snapshot write.
C18_WaitsForAllThenWritesSnapshot ==
  /\ [](PoolLeft => \A i \in DOMAIN task : task[i].st = "finished")
  /\ \A i \in 1 .. Cardinality(PluginNames) :
       (i \in DOMAIN task /\ task[i].st = "queued")
         ~> (i \in DOMAIN task /\ task[i].st = "finished")
  /\ <>(main_pc = "save")

\* ---------------------------------------------------------- C19
IsMarker(v) == v[1] = "failed"

\* The keys whose cache entry the step sets or replaces.
WrittenKeys ==
  {k \in DOMAIN cache' : k \notin DOMAIN cache \/ cache'[k] # cache[k]}

\* The rows of earlier batches that have the type and text of row r and
\* ended with the failure marker, while the remote has translated that
\* text for no row so far.
FailedBefore(r) ==
  {q \in 1 .. Len(df) :
     /\ q \notin {idx_chunk'[i] : i \in 1 .. Len(idx_chunk')}
     /\ <<df[r].type, normalize_text(df[r].string)>> \notin ret_keys
     /\ df[q].type = df[r].type
     /\ normalize_text(df[q].string) = normalize_text(df[r].string)
     /\ IsMarker(Translated[q])}

\* The step takes the next batch: _process_one_batch is entered.
BatchStarts ==
  call_pc = "idle" /\ (call_pc' = "retry" \/ Len(pending') < Len(pending))

\* C19: the cache is written only with a translation the remote returned
\* under the id of an item with that text; a row that ends with the
\* failure marker was never answered and causes no cache write; the
\* failure marker is never stored; and a text that failed in an earlier
\* batch and has not been translated since is submitted to the remote
\* again when a later batch carries it.
C19_CacheWrittenOnlyAfterSuccess ==
  [][ /\ \A k \in WrittenKeys :
           /\ k[1] = record_type
           /\ ~IsMarker(cache'[k])
           /\ \E i \in 1 .. Len(final_results) :
                /\ final_results[i][2] = cache'[k]
                /\ \E j \in 1 .. Len(uncached_items) :
                     /\ uncached_items[j].id = final_results[i][1]
                     /\ uncached_items[j].text = k[2]
      /\ (call_pc = "retry" /\ call_pc' = "idle") =>
           \A i \in 1 .. Len(idx_chunk) :
             IsMarker(Translated'[idx_chunk[i]]) =>
               returned[idx_chunk[i]] = {}
      /\ BatchStarts =>
           \A i \in 1 .. Len(idx_chunk') :
             FailedBefore(idx_chunk'[i]) # {} =>
               call_pc' = "retry" /\ (i - 1) \in Ids(uncached_items') ]_vars

\* A text failed in an earlier batch, a later batch carries it and is in
\* its remote calls with that text submitted, while the cache holds the
\* translation of another text and no entry for the failed one.
C19_Witness ==
  /\ call_pc = "retry" /\ invocations > 0
  /\ cache # EmptyFn
  /\ \E q \in 1 .. Len(df), i \in 1 .. Len(input_items) :
       /\ IsMarker(Translated[q])
       /\ df[q].type = record_type
       /\ normalize_text(df[q].string) = input_items[i].text
       /\ q \notin {idx_chunk[j] : j \in 1 .. Len(idx_chunk)}
       /\ <<record_type, input_items[i].text>> \notin DOMAIN cache

\* ---------------------------------------------------------- C21
\* The file names EXCLUDE_PLUGINS lists: none, or the one name it holds.
ListedEntries == IF exclude_plugins = <<>> THEN {} ELSE {exclude_plugins}

FilterOver ==
  main_pc \in {"submit", "collect", "save", "returned", "returned_early"}

ToProcess == {filtered_plugins[i] : i \in 1 .. Len(filtered_plugins)}

\* C21: once the exclusion filter has run, a changed plugin is left out of
\* the plugins to process exactly when its file name is one of the names
\* EXCLUDE_PLUGINS lists; a plugin whose name is only a part of a listed
\* name is still processed.
C21_ExcludedIffListed ==
  FilterOver =>
    \A i \in 1 .. Len(updated_plugins) :
      updated_plugins[i] \notin ToProcess
        <=> updated_plugins[i].name \in ListedEntries

\* ---------------------------------------------------------- C22
\* C22: whatever the remote answers, an unrequested or a repeated id
\* included, call_llm_api_batch never raises, and when it has returned
\* its output has one entry per input text.
C22_BadResponseNeverRaises ==
  /\ call_pc # "raised"
  /\ call_pc = "idle" => Len(translated_chunk) = Len(safe_text_list)

\* ---------------------------------------------------------- C23
\* C23: the plugin list the resolver hands to main and the list submitted
\* to the pool hold no two plugins with the same file name, and no two
\* pipelines that run at the same time have the same CSV path or the same
\* JSON path.
C23_NoTwoPipelinesShareAnOutputFile ==
  /\ \A i, j \in 1 .. Len(plugin_list) :
       plugin_list[i].name = plugin_list[j].name => i = j
  /\ \A i, j \in 1 .. Len(filtered_plugins) :
       filtered_plugins[i].name = filtered_plugins[j].name => i = j
  /\ \A i, j \in Running :
       i # j =>
         /\ csv_path(filtered_plugins[i]) # csv_path(filtered_plugins[j])
         /\ json_path(filtered_plugins[i]) # json_path(filtered_plugins[j])

\* Two pipelines run at the same time, on plugins the resolver took from
\* two different mods.
C23_Witness ==
  /\ Cardinality(Running) = 2
  /\ \E i, j \in Running :
       filtered_plugins[i].mod = "m1" /\ filtered_plugins[j].mod = "m2"

\* ---------------------------------------------------------- C24
SecondRun == prev_run = "saved"

\* C24: in a run that follows a run which wrote the snapshot, with the
\* same plugin list, the same configuration and no plugin file touched,
\* change detection takes no plugin, no plugin is submitted, and the run
\* ends at the return for an empty selection.
C24_SecondRunSelectsNothing ==
  [][ SecondRun' =>
        /\ updated_plugins' = <<>>
        /\ main_pc' \in {"load", "detect", "returned_early"}
        /\ pool_vars' = pool_vars ]_vars

\* The second run has ended with nothing selected, after a first run in
\* which one pipeline failed or raised and the exclusion held back a
\* plugin whose stat succeeds.
C24_Witness ==
  /\ SecondRun /\ main_pc = "returned_early"
  /\ \E i \in DOMAIN task :
       task[i].outcome \in {"extract_failed", "translate_failed",
                            "convert_failed", "exception_logged"}
  /\ \E k \in 1 .. Len(plugin_list) :
       /\ mtime[plugin_list[k].name] # 0
       /\ Contains(exclude_plugins, plugin_list[k].name)
       /\ \A i \in 1 .. Len(filtered_plugins) :
            filtered_plugins[i] # plugin_list[k]
====
